---------------------------- MODULE Spec2Model ----------------------------
(***************************************************************************)
(* Model of tutorials/building_text_classifier.ipynb: fine-tuning a BERT   *)
(* sentence-pair classifier with a differentially private optimizer.       *)
(*                                                                         *)
(* The notebook has three independent pieces of own logic, each given its  *)
(* own specification over the variables it uses:                           *)
(*   SpecExamples / SpecFeatures  the data preparation cell                *)
(*                                (_create_examples, _df_to_features)      *)
(*   SpecFreeze                   the layer-freezing cell                  *)
(*   SpecTrain                    the training loop and evaluate()         *)
(***************************************************************************)
EXTENDS Integers, Sequences, FiniteSets, TLC

VARIABLES
    \* ---- data preparation cell
    df,             \* the dataframe: a sequence of rows
    set_type,       \* "train" or "test", as a character sequence
    examples,       \* list of InputExample returned by _create_examples
    features,       \* list of InputFeatures returned by _df_to_features
    pcData,         \* position in the data preparation cell
    \* ---- layer-freezing cell
    layer_params,   \* layer -> the parameters layer.parameters() yields
    numel,          \* parameter -> p.numel()
    requires_grad,  \* parameter -> p.requires_grad
    total_params,
    trainable_params,
    pcFreeze,       \* position in the layer-freezing cell
    \* ---- training
    BATCH_SIZE,
    VIRTUAL_BATCH_SIZE,
    LOGGING_INTERVAL,
    train_size,     \* len(train_dataset)
    test_size,      \* len(test_dataset)
    epoch,
    step,           \* index enumerate() gives the current training batch
    pc,             \* position in the training loop
    training,       \* model.training: TRUE in train mode, FALSE in eval mode
    n_losses,       \* len(losses)
    eval_batch,     \* test batches evaluate() has gone through
    acc_batches,    \* physical batches the optimizer has accumulated
    acc_samples,    \* samples the optimizer has accumulated
    calls,          \* calls on the model and the optimizer since the
                    \* current training batch was fetched
    ops,            \* this epoch: the optimizer call made on each batch
    updates,        \* this epoch: per optimizer.step, <<batches, samples>>
    eval_steps,     \* this epoch: the steps at which metrics were reported
    last_forward,   \* the latest forward pass: its kind, the mode it ran in,
                    \* and whether evaluate had been called before it
    evaluate_entry, \* the mode the model was in at the latest call of
                    \* evaluate; "not_called" before the first
    accuracy_arr,   \* evaluate: accuracy of each test batch, a fraction
    eval_accuracy   \* the accuracy evaluate returned, a fraction

dataVars == <<df, set_type, examples, features, pcData>>

freezeVars == <<layer_params, numel, requires_grad, total_params,
                trainable_params, pcFreeze>>

trainVars == <<BATCH_SIZE, VIRTUAL_BATCH_SIZE, LOGGING_INTERVAL, train_size,
               test_size, epoch, step, pc, training, n_losses, eval_batch,
               acc_batches, acc_samples, calls, ops, updates, eval_steps,
               last_forward, evaluate_entry, accuracy_arr, eval_accuracy>>

vars == <<dataVars, freezeVars, trainVars>>

(***************************************************************************)
(* Bounds of the model                                                     *)
(***************************************************************************)
\* longest table explored by SpecExamples
MaxRows == 3
\* most word-piece tokens one sentence tokenizes to in SpecFeatures
MaxTokens == 70
\* parameter tensors of the model, encoder layers, and largest numel
NumParams == 2
NumEncoderLayers == 2
MaxNumel == 2
\* largest training set, test set, virtual batch and logging interval
MaxTrainSize == 9
MaxTestSize == 3
MaxVirtualBatchSize == 6
MaxLoggingInterval == 3

(***************************************************************************)
(* Data preparation                                                        *)
(***************************************************************************)
LABEL_LIST == <<"contradiction", "entailment", "neutral">>

MAX_SEQ_LENGHT == 128

\* gold_label values of the SNLI files: the three classes, and "-" where
\* the annotators reached no majority
GoldLabels == {"contradiction", "entailment", "neutral", "-"}

\* a cell of a sentence column: a Python str (known here by the number of
\* word pieces the tokenizer makes of it), or the float NaN pandas puts in
\* an empty cell
Str(n) == [type |-> "str", ntok |-> n]

NaN == [type |-> "float", ntok |-> 0]

isinstance_str(v) == v.type = "str"

Range(s) == {s[i] : i \in DOMAIN s}

\* str(n) for n >= 0, as a sequence of characters
Digit(d) == <<"0", "1", "2", "3", "4", "5", "6", "7", "8", "9">>[d + 1]

RECURSIVE IntToStr(_)
IntToStr(n) ==
    IF n < 10 THEN <<Digit(n)>> ELSE IntToStr(n \div 10) \o <<Digit(n % 10)>>

\* f"{index}-{set_type}"
Guid(index, st) == IntToStr(index) \o <<"-">> \o st

InputExample(guid, text_a, text_b, label) ==
    [guid |-> guid, text_a |-> text_a, text_b |-> text_b, label |-> label]

\* the body of the for loop of _create_examples on one row: the examples
\* list after the row
\* variant: the gold_label test left out
CreateExamplesRow_nolabelcheck(acc, row, st) ==
    IF ~isinstance_str(row.sentence1) \/ ~isinstance_str(row.sentence2)
    THEN acc
    ELSE Append(acc, InputExample(Guid(row.index, st), row.sentence1,
                                  row.sentence2, row.gold_label))

\* variant: 'and' for 'or' between the two isinstance tests
CreateExamplesRow_and(acc, row, st) ==
    IF row.gold_label \notin Range(LABEL_LIST)
    THEN acc
    ELSE IF ~isinstance_str(row.sentence1) /\ ~isinstance_str(row.sentence2)
    THEN acc
    ELSE Append(acc, InputExample(Guid(row.index, st), row.sentence1,
                                  row.sentence2, row.gold_label))

CreateExamplesRow(acc, row, st) ==
    IF row.gold_label \notin Range(LABEL_LIST)
    THEN acc
    ELSE IF ~isinstance_str(row.sentence1) \/ ~isinstance_str(row.sentence2)
    THEN acc
    ELSE Append(acc, InputExample(Guid(row.index, st), row.sentence1,
                                  row.sentence2, row.gold_label))

\* _create_examples(df, set_type): the loop over df.iterrows(), from row i
\* variant: break for continue
RECURSIVE CreateExamplesFrom_break(_, _, _, _)
CreateExamplesFrom_break(d, st, i, acc) ==
    IF i > Len(d) THEN acc
    ELSE IF CreateExamplesRow(acc, d[i], st) = acc THEN acc
    ELSE CreateExamplesFrom_break(d, st, i + 1, CreateExamplesRow(acc, d[i], st))

RECURSIVE CreateExamplesFrom(_, _, _, _)
CreateExamplesFrom(d, st, i, acc) ==
    IF i > Len(d) THEN acc
    ELSE CreateExamplesFrom(d, st, i + 1, CreateExamplesRow(acc, d[i], st))

_create_examples(d, st) == CreateExamplesFrom(d, st, 1, <<>>)

(***************************************************************************)
(* glue_convert_examples_to_features of the transformers library, as the   *)
(* docstring of _df_to_features describes it: tokenize the pair, cut or    *)
(* pad each sequence to max_length, convert tokens into ids.               *)
(***************************************************************************)
\* word pieces of a str cell
Tokenize(text) == [i \in 1..text.ntok |-> "w"]

Repeat(x, n) == [i \in 1..n |-> x]

\* the tokenizer's truncation of a pair ("longest first"): one token at a
\* time is dropped from the end of the longer sequence, from the second at
\* a tie, until the pair fits
RECURSIVE TruncatePair(_, _, _)
TruncatePair(a, b, budget) ==
    IF Len(a) + Len(b) <= budget \/ Len(a) + Len(b) = 0 THEN <<a, b>>
    ELSE IF Len(a) > Len(b)
         THEN TruncatePair(SubSeq(a, 1, Len(a) - 1), b, budget)
         ELSE TruncatePair(a, SubSeq(b, 1, Len(b) - 1), budget)

\* position of a label in label_list, from 0
LabelId(label) == (CHOOSE i \in DOMAIN LABEL_LIST : LABEL_LIST[i] = label) - 1

\* one example to one InputFeatures: [CLS] a [SEP] b [SEP], padded on the
\* right with the pad token, mask 0 and segment 0
ConvertExample(ex, max_length) ==
    LET ab   == TruncatePair(Tokenize(ex.text_a), Tokenize(ex.text_b),
                             max_length - 3)
        ids  == <<"[CLS]">> \o ab[1] \o <<"[SEP]">> \o ab[2] \o <<"[SEP]">>
        segs == Repeat(0, Len(ab[1]) + 2) \o Repeat(1, Len(ab[2]) + 1)
        pad  == max_length - Len(ids)
    IN  [input_ids      |-> ids \o Repeat("[PAD]", pad),
         attention_mask |-> Repeat(1, Len(ids)) \o Repeat(0, pad),
         token_type_ids |-> segs \o Repeat(0, pad),
         label          |-> LabelId(ex.label)]

glue_convert_examples_to_features(exs, max_length) ==
    [k \in 1..Len(exs) |-> ConvertExample(exs[k], max_length)]

\* _df_to_features(df, set_type)
\* variant: max_length one short
_df_to_features_offbyone(d, st) ==
    glue_convert_examples_to_features(_create_examples(d, st),
                                      MAX_SEQ_LENGHT - 1)

_df_to_features(d, st) ==
    glue_convert_examples_to_features(_create_examples(d, st), MAX_SEQ_LENGHT)

(***************************************************************************)
(* The data preparation cell as a state machine                            *)
(***************************************************************************)
SetTypes == {<<"t", "r", "a", "i", "n">>, <<"t", "e", "s", "t">>}

\* pd.read_csv gives the rows the index 0, 1, 2, ...
Table(cells) ==
    [i \in DOMAIN cells |->
        [index |-> i - 1, gold_label |-> cells[i].gold_label,
         sentence1 |-> cells[i].sentence1, sentence2 |-> cells[i].sentence2]]

Cells(sentences) ==
    [gold_label : GoldLabels, sentence1 : sentences, sentence2 : sentences]

SeqsUpTo(S, n) == UNION {[1..k -> S] : k \in 0..n}

\* tables of up to MaxRows rows, each sentence cell a str or NaN
ExampleTables == {Table(c) : c \in SeqsUpTo(Cells({NaN, Str(1)}), MaxRows)}

\* one-row tables, each sentence cell NaN or a str of up to MaxTokens pieces
FeatureTables ==
    {Table(<<c>>) : c \in Cells({NaN} \cup {Str(n) : n \in 0..MaxTokens})}

InitData(tables) ==
    /\ df \in tables
    /\ set_type \in SetTypes
    /\ examples = <<>>
    /\ features = <<>>
    /\ pcData = "start"

IdleData ==
    /\ df = <<>>
    /\ set_type = <<>>
    /\ examples = <<>>
    /\ features = <<>>
    /\ pcData = "idle"

\* examples = _create_examples(df, set_type)
CreateExamples ==
    /\ pcData = "start"
    /\ examples' = _create_examples(df, set_type)
    /\ pcData' = "created"
    /\ UNCHANGED <<df, set_type, features>>

\* features = _df_to_features(df, set_type)
DfToFeatures ==
    /\ pcData = "start"
    /\ examples' = _create_examples(df, set_type)
    /\ features' = _df_to_features(df, set_type)
    /\ pcData' = "converted"
    /\ UNCHANGED <<df, set_type>>

(***************************************************************************)
(* The layer-freezing cell                                                 *)
(***************************************************************************)
Params == 1..NumParams

\* the modules of BertForSequenceClassification that own parameters:
\* model.bert.embeddings, model.bert.encoder.layer[k-1], model.bert.pooler,
\* model.classifier
Embeddings == <<"embeddings", 0>>

EncoderLayer(k) == <<"encoder", k>>

Pooler == <<"pooler", 0>>

Classifier == <<"classifier", 0>>

Layers ==
    {Embeddings, Pooler, Classifier}
        \cup {EncoderLayer(k) : k \in 1..NumEncoderLayers}

\* [model.bert.encoder.layer[-1], model.bert.pooler, model.classifier]
\* variant: layer[0] for layer[-1]
trainable_layers_first == <<EncoderLayer(1), Pooler, Classifier>>

trainable_layers == <<EncoderLayer(NumEncoderLayers), Pooler, Classifier>>

\* model.parameters(): every parameter of every module, each one once
ModelParameters == UNION {layer_params[l] : l \in Layers}

\* the sum of p.numel() over a set of parameters
RECURSIVE SumNumel(_)
SumNumel(S) ==
    IF S = {} THEN 0
    ELSE LET p == CHOOSE q \in S : TRUE IN numel[p] + SumNumel(S \ {p})

\* total_params after the first loop
\* variant: total_params += 1
TotalCount_tensors(S) == Cardinality(S)

TotalCount(S) == SumNumel(S)

\* trainable_params after the second loop, which visits the entries of
\* trainable_layers one after the other, from entry i
RECURSIVE TrainableCount(_, _)
TrainableCount(layers, i) ==
    IF i > Len(layers) THEN 0
    ELSE SumNumel(layer_params[layers[i]]) + TrainableCount(layers, i + 1)

\* the parameters the second loop sets requires_grad on
TrainableSet(layers) == UNION {layer_params[layers[i]] : i \in DOMAIN layers}

\* a model: every parameter belongs to one layer, and at most one of them
\* is also reachable from a second layer (a shared, or tied, tensor)
ModelStructures ==
    {[l \in Layers |->
        {p \in Params : owner[p] = l \/ share = <<p, l>>}] :
            owner \in [Params -> Layers],
            share \in (Params \X Layers)}

InitFreeze ==
    /\ layer_params \in ModelStructures
    /\ numel \in [Params -> 1..MaxNumel]
    /\ requires_grad = [p \in Params |-> TRUE]
    /\ total_params = 0
    /\ trainable_params = 0
    /\ pcFreeze = "freeze"

IdleFreeze ==
    /\ layer_params = <<>>
    /\ numel = <<>>
    /\ requires_grad = <<>>
    /\ total_params = 0
    /\ trainable_params = 0
    /\ pcFreeze = "idle"

\* for p in model.parameters(): p.requires_grad = False; total_params += p.numel()
FreezeAll ==
    /\ pcFreeze = "freeze"
    /\ requires_grad' =
           [p \in Params |-> IF p \in ModelParameters THEN FALSE
                             ELSE requires_grad[p]]
    /\ total_params' = total_params + TotalCount(ModelParameters)
    /\ pcFreeze' = "unfreeze"
    /\ UNCHANGED <<layer_params, numel, trainable_params, dataVars, trainVars>>

\* for layer in trainable_layers: for p in layer.parameters():
\*     p.requires_grad = True; trainable_params += p.numel()
UnfreezeTrainable ==
    /\ pcFreeze = "unfreeze"
    /\ requires_grad' =
           [p \in Params |-> IF p \in TrainableSet(trainable_layers) THEN TRUE
                             ELSE requires_grad[p]]
    /\ trainable_params' = trainable_params + TrainableCount(trainable_layers, 1)
    /\ pcFreeze' = "done"
    /\ UNCHANGED <<layer_params, numel, total_params, dataVars, trainVars>>

(***************************************************************************)
(* The training loop and evaluate()                                        *)
(***************************************************************************)
EPOCHS == 3

\* len(DataLoader(dataset, batch_size=b)): the last batch may be smaller
LoaderLen(size, b) == (size + b - 1) \div b

\* number of samples in batch i (from 0) of such a loader
BatchLen(size, b, i) ==
    IF i < LoaderLen(size, b) - 1 THEN b ELSE size - (LoaderLen(size, b) - 1) * b

\* the assert of the parameter cell makes the division exact
\* variant: the division by BATCH_SIZE left out
virtual_batch_rate_undivided == VIRTUAL_BATCH_SIZE

virtual_batch_rate == VIRTUAL_BATCH_SIZE \div BATCH_SIZE

\* (step + 1) % virtual_batch_rate == 0 or step == len(train_dataloader) - 1
\* variant: the last-batch clause left out
StepCondition_nolast == (step + 1) % virtual_batch_rate = 0

\* variant: step for step + 1
StepCondition_offbyone ==
    \/ step % virtual_batch_rate = 0
    \/ step = LoaderLen(train_size, BATCH_SIZE) - 1

StepCondition ==
    \/ (step + 1) % virtual_batch_rate = 0
    \/ step = LoaderLen(train_size, BATCH_SIZE) - 1

\* step > 0 and step % LOGGING_INTERVAL == 0
\* variant: the step > 0 clause left out
LogCondition_fromzero == step % LOGGING_INTERVAL = 0

LogCondition == step > 0 /\ step % LOGGING_INTERVAL = 0

\* a number that is a float in the code, kept exact as <<numerator,
\* denominator>>, not reduced
Fraction(n, d) == <<n, d>>

FracAdd(x, y) == Fraction(x[1] * y[2] + y[1] * x[2], x[2] * y[2])

FracEq(x, y) == x[1] * y[2] = y[1] * x[2]

RECURSIVE FracSum(_)
FracSum(q) == IF q = <<>> THEN Fraction(0, 1) ELSE FracAdd(q[1], FracSum(Tail(q)))

\* np.mean of a non-empty list of fractions
Mean(q) == Fraction(FracSum(q)[1], FracSum(q)[2] * Len(q))

\* accuracy(preds, labels) = (preds == labels).mean(); hits[i] tells whether
\* the prediction for sample i of the batch equals its label
accuracy(hits) ==
    Fraction(Cardinality({i \in DOMAIN hits : hits[i]}), Len(hits))

\* no forward pass yet; no value of evaluate at hand
NoForward == [kind |-> "none", training |-> TRUE, after_evaluate |-> FALSE]

NoValue == Fraction(0, 1)

\* the configurations the assert on VIRTUAL_BATCH_SIZE % BATCH_SIZE lets run;
\* the model may be in train or in eval mode when the loop starts
InitTrain ==
    /\ VIRTUAL_BATCH_SIZE \in 1..MaxVirtualBatchSize
    /\ BATCH_SIZE \in {b \in 1..MaxVirtualBatchSize : VIRTUAL_BATCH_SIZE % b = 0}
    /\ LOGGING_INTERVAL \in 1..MaxLoggingInterval
    /\ train_size \in 1..MaxTrainSize
    /\ test_size \in 1..MaxTestSize
    /\ epoch = 1
    /\ step = 0
    /\ pc = "next_batch"
    /\ training \in BOOLEAN
    /\ n_losses = 0
    /\ eval_batch = 0
    /\ acc_batches = 0
    /\ acc_samples = 0
    /\ calls = <<>>
    /\ ops = <<>>
    /\ updates = <<>>
    /\ eval_steps = {}
    /\ last_forward = NoForward
    /\ evaluate_entry = "not_called"
    /\ accuracy_arr = <<>>
    /\ eval_accuracy = NoValue

config == <<BATCH_SIZE, VIRTUAL_BATCH_SIZE, LOGGING_INTERVAL, train_size,
            test_size>>

notTrain == <<dataVars, freezeVars>>

evalVars == <<last_forward, evaluate_entry, accuracy_arr, eval_accuracy>>

\* enumerate(train_dataloader) yields the next batch
NextBatch ==
    /\ pc = "next_batch"
    /\ step < LoaderLen(train_size, BATCH_SIZE)
    /\ pc' = "forward"
    /\ UNCHANGED <<notTrain, config, evalVars, epoch, step, training, n_losses, eval_batch,
                   acc_batches, acc_samples, calls, ops, updates, eval_steps>>

\* the loader is exhausted: the next epoch starts with losses = [] and
\* enumerate() counts from 0 again
NextEpoch ==
    /\ pc = "next_batch"
    /\ step = LoaderLen(train_size, BATCH_SIZE)
    /\ epoch < EPOCHS
    /\ epoch' = epoch + 1
    /\ step' = 0
    /\ n_losses' = 0
    /\ ops' = <<>>
    /\ updates' = <<>>
    /\ eval_steps' = {}
    /\ UNCHANGED <<notTrain, config, evalVars, pc, training, eval_batch, acc_batches,
                   acc_samples, calls>>

\* the last epoch is over
Finish ==
    /\ pc = "next_batch"
    /\ step = LoaderLen(train_size, BATCH_SIZE)
    /\ epoch = EPOCHS
    /\ pc' = "done"
    /\ UNCHANGED <<notTrain, config, evalVars, epoch, step, training, n_losses, eval_batch,
                   acc_batches, acc_samples, calls, ops, updates, eval_steps>>

\* outputs = model(**inputs)
Forward ==
    /\ pc = "forward"
    /\ calls' = <<"forward">>
    /\ last_forward' = [kind |-> "train", training |-> training,
                        after_evaluate |-> evaluate_entry # "not_called"]
    /\ pc' = "backward"
    /\ UNCHANGED <<notTrain, config, evaluate_entry, accuracy_arr, eval_accuracy, epoch, step, training, n_losses, eval_batch,
                   acc_batches, acc_samples, ops, updates, eval_steps>>

\* loss.backward(); losses.append(loss.item())
Backward ==
    /\ pc = "backward"
    /\ calls' = Append(calls, "backward")
    /\ n_losses' = n_losses + 1
    /\ pc' = "optimizer"
    /\ UNCHANGED <<notTrain, config, evalVars, epoch, step, training, eval_batch, acc_batches,
                   acc_samples, ops, updates, eval_steps>>

\* optimizer.step(): the gradients of this batch join the accumulated ones,
\* the weights are updated and the accumulation starts afresh
\* variant: virtual_step() not under else, so called after step() as well
OptimizerStep_noelse ==
    /\ pc = "optimizer"
    /\ StepCondition
    /\ calls' = calls \o <<"step", "virtual_step">>
    /\ ops' = Append(ops, "step")
    /\ updates' = Append(updates,
           <<acc_batches + 1,
             acc_samples + BatchLen(train_size, BATCH_SIZE, step)>>)
    /\ acc_batches' = 1
    /\ acc_samples' = BatchLen(train_size, BATCH_SIZE, step)
    /\ pc' = "zero_grad"
    /\ UNCHANGED <<notTrain, config, evalVars, epoch, step, training, n_losses, eval_batch,
                   eval_steps>>

OptimizerStep ==
    /\ pc = "optimizer"
    /\ StepCondition
    /\ calls' = Append(calls, "step")
    /\ ops' = Append(ops, "step")
    /\ updates' = Append(updates,
           <<acc_batches + 1,
             acc_samples + BatchLen(train_size, BATCH_SIZE, step)>>)
    /\ acc_batches' = 0
    /\ acc_samples' = 0
    /\ pc' = "zero_grad"
    /\ UNCHANGED <<notTrain, config, evalVars, epoch, step, training, n_losses, eval_batch,
                   eval_steps>>

\* optimizer.virtual_step(): the gradients of this batch join the
\* accumulated ones, the weights stay
OptimizerVirtualStep ==
    /\ pc = "optimizer"
    /\ ~StepCondition
    /\ calls' = Append(calls, "virtual_step")
    /\ ops' = Append(ops, "virtual_step")
    /\ acc_batches' = acc_batches + 1
    /\ acc_samples' = acc_samples + BatchLen(train_size, BATCH_SIZE, step)
    /\ pc' = "zero_grad"
    /\ UNCHANGED <<notTrain, config, evalVars, epoch, step, training, n_losses, eval_batch,
                   updates, eval_steps>>

\* model.zero_grad()
ZeroGrad ==
    /\ pc = "zero_grad"
    /\ calls' = Append(calls, "zero_grad")
    /\ pc' = "logging"
    /\ UNCHANGED <<notTrain, config, evalVars, epoch, step, training, n_losses, eval_batch,
                   acc_batches, acc_samples, ops, updates, eval_steps>>

\* the logging condition is false: on to the next batch
SkipLogging ==
    /\ pc = "logging"
    /\ ~LogCondition
    /\ step' = step + 1
    /\ pc' = "next_batch"
    /\ UNCHANGED <<notTrain, config, evalVars, epoch, training, n_losses, eval_batch,
                   acc_batches, acc_samples, calls, ops, updates, eval_steps>>

\* the logging condition is true: train_loss and get_privacy_spent, then
\* evaluate(model) is called
StartLogging ==
    /\ pc = "logging"
    /\ LogCondition
    /\ pc' = "evaluate"
    /\ UNCHANGED <<notTrain, config, evalVars, epoch, step, training, n_losses, eval_batch,
                   acc_batches, acc_samples, calls, ops, updates, eval_steps>>

\* evaluate: model.eval(); loss_arr = []; accuracy_arr = []
EvalBegin ==
    /\ pc = "evaluate"
    /\ evaluate_entry' = IF training THEN "train" ELSE "eval"
    /\ training' = FALSE
    /\ accuracy_arr' = <<>>
    /\ eval_batch' = 0
    /\ pc' = "eval_loop"
    /\ UNCHANGED <<notTrain, config, last_forward, eval_accuracy, epoch, step, n_losses, acc_batches, acc_samples,
                   calls, ops, updates, eval_steps>>

\* evaluate: one batch of test_dataloader through the model, no gradients
EvalBatch ==
    /\ pc = "eval_loop"
    /\ eval_batch < LoaderLen(test_size, BATCH_SIZE)
    /\ calls' = Append(calls, "eval_forward")
    /\ last_forward' = [kind |-> "eval", training |-> training,
                        after_evaluate |-> TRUE]
    /\ \E hits \in [1..BatchLen(test_size, BATCH_SIZE, eval_batch) -> BOOLEAN] :
           accuracy_arr' = Append(accuracy_arr, accuracy(hits))
    /\ eval_batch' = eval_batch + 1
    /\ UNCHANGED <<notTrain, config, evaluate_entry, eval_accuracy, epoch, step, pc, training, n_losses, acc_batches,
                   acc_samples, ops, updates, eval_steps>>

\* evaluate: model.train(); return the two means
\* variant: model.train() left out
EvalEnd_notrain ==
    /\ pc = "eval_loop"
    /\ eval_batch = LoaderLen(test_size, BATCH_SIZE)
    /\ eval_accuracy' = Mean(accuracy_arr)
    /\ pc' = "report"
    /\ UNCHANGED <<notTrain, config, last_forward, evaluate_entry, accuracy_arr, training,
                   epoch, step, n_losses, eval_batch, acc_batches, acc_samples,
                   calls, ops, updates, eval_steps>>

EvalEnd ==
    /\ pc = "eval_loop"
    /\ eval_batch = LoaderLen(test_size, BATCH_SIZE)
    /\ training' = TRUE
    /\ eval_accuracy' = Mean(accuracy_arr)
    /\ pc' = "report"
    /\ UNCHANGED <<notTrain, config, last_forward, evaluate_entry, accuracy_arr, epoch, step, n_losses, eval_batch, acc_batches,
                   acc_samples, calls, ops, updates, eval_steps>>

\* print(...) of train loss, eval loss, eval accuracy and epsilon; the
\* values of this evaluation are not read again
Report ==
    /\ pc = "report"
    /\ eval_steps' = eval_steps \cup {step}
    /\ accuracy_arr' = <<>>
    /\ eval_accuracy' = NoValue
    /\ step' = step + 1
    /\ pc' = "next_batch"
    /\ UNCHANGED <<notTrain, config, last_forward, evaluate_entry, epoch, training, n_losses, eval_batch,
                   acc_batches, acc_samples, calls, ops, updates>>

IdleTrain ==
    /\ BATCH_SIZE = 0
    /\ VIRTUAL_BATCH_SIZE = 0
    /\ LOGGING_INTERVAL = 0
    /\ train_size = 0
    /\ test_size = 0
    /\ epoch = 0
    /\ step = 0
    /\ pc = "idle"
    /\ training = TRUE
    /\ n_losses = 0
    /\ eval_batch = 0
    /\ acc_batches = 0
    /\ acc_samples = 0
    /\ calls = <<>>
    /\ ops = <<>>
    /\ updates = <<>>
    /\ eval_steps = {}
    /\ last_forward = NoForward
    /\ evaluate_entry = "not_called"
    /\ accuracy_arr = <<>>
    /\ eval_accuracy = NoValue

(***************************************************************************)
(* Specifications                                                          *)
(***************************************************************************)
InitExamples == InitData(ExampleTables) /\ IdleFreeze /\ IdleTrain

NextExamples == CreateExamples /\ UNCHANGED <<freezeVars, trainVars>>

SpecExamples == InitExamples /\ [][NextExamples]_vars

InitFeatures == InitData(FeatureTables) /\ IdleFreeze /\ IdleTrain

NextFeatures == DfToFeatures /\ UNCHANGED <<freezeVars, trainVars>>

SpecFeatures == InitFeatures /\ [][NextFeatures]_vars

InitFreezeCell == InitFreeze /\ IdleData /\ IdleTrain

NextFreeze == FreezeAll \/ UnfreezeTrainable

SpecFreeze == InitFreezeCell /\ [][NextFreeze]_vars

InitTrainLoop == InitTrain /\ IdleData /\ IdleFreeze

NextTrain ==
    \/ NextBatch
    \/ NextEpoch
    \/ Finish
    \/ Forward
    \/ Backward
    \/ OptimizerStep
    \/ OptimizerVirtualStep
    \/ ZeroGrad
    \/ SkipLogging
    \/ StartLogging
    \/ EvalBegin
    \/ EvalBatch
    \/ EvalEnd
    \/ Report

SpecTrain == InitTrainLoop /\ [][NextTrain]_vars

(***************************************************************************)
(* Claims about the data preparation cell                                  *)
(***************************************************************************)
WellFormed(row) ==
    /\ row.gold_label \in {"contradiction", "entailment", "neutral"}
    /\ row.sentence1.type = "str"
    /\ row.sentence2.type = "str"

\* the row an example was made from, found by the index in its guid
RowsOfGuid(ex) == {i \in DOMAIN df : Guid(df[i].index, set_type) = ex.guid}

\* C1: every row whose gold_label is not 'contradiction', 'entailment' or
\* 'neutral' is left out of the list _create_examples returns: no returned
\* example carries another label, and none was made from such a row.
C1_LabelOutsideListExcluded ==
    pcData = "created" =>
        /\ \A k \in DOMAIN examples :
              examples[k].label \in {"contradiction", "entailment", "neutral"}
        /\ \A i \in DOMAIN df :
              df[i].gold_label \notin {"contradiction", "entailment", "neutral"}
                 => \A k \in DOMAIN examples : i \notin RowsOfGuid(examples[k])

C1_Witness ==
    /\ pcData = "created"
    /\ \E i \in DOMAIN df : df[i].gold_label = "-"
                            /\ df[i].sentence1.type = "str"
                            /\ df[i].sentence2.type = "str"
    /\ \E i \in DOMAIN df : WellFormed(df[i])
    /\ examples # <<>>

\* C2: every row in which sentence1 or sentence2 is not a string is left
\* out of the list _create_examples returns, whatever its label is.
C2_NonStringSentenceExcluded ==
    pcData = "created" =>
        \A i \in DOMAIN df :
            (df[i].sentence1.type # "str" \/ df[i].sentence2.type # "str")
               => \A k \in DOMAIN examples : i \notin RowsOfGuid(examples[k])

C2_Witness ==
    /\ pcData = "created"
    /\ \E i \in DOMAIN df : /\ df[i].gold_label = "entailment"
                            /\ df[i].sentence1.type = "str"
                            /\ df[i].sentence2.type # "str"
    /\ \E i \in DOMAIN df : /\ df[i].gold_label = "neutral"
                            /\ df[i].sentence1.type # "str"
                            /\ df[i].sentence2.type = "str"
    /\ \E i \in DOMAIN df : WellFormed(df[i])
    /\ examples # <<>>

\* positions of the well-formed rows of df, and the k-th of them
WellFormedRows == {i \in DOMAIN df : WellFormed(df[i])}

KthWellFormed(k) ==
    CHOOSE i \in WellFormedRows :
        Cardinality({j \in WellFormedRows : j <= i}) = k

\* C8: malformed rows are skipped without an error and the rows after them
\* are still read: the returned list holds exactly one example for every
\* well-formed row, in row order, with guid '<row index>-<set_type>' and
\* the row's sentences and label.
C8_OneExamplePerWellFormedRow ==
    pcData = "created" =>
        /\ Len(examples) = Cardinality(WellFormedRows)
        /\ \A k \in DOMAIN examples :
              LET row == df[KthWellFormed(k)]
              IN  /\ examples[k].guid = IntToStr(row.index) \o <<"-">> \o set_type
                  /\ examples[k].text_a = row.sentence1
                  /\ examples[k].text_b = row.sentence2
                  /\ examples[k].label = row.gold_label

\* a malformed row between two well-formed ones
C8_Witness ==
    /\ pcData = "created"
    /\ Len(df) >= 3
    /\ WellFormed(df[1]) /\ ~WellFormed(df[2]) /\ WellFormed(df[3])
    /\ Len(examples) = 2
    /\ examples[2].guid = <<"2", "-", "t", "e", "s", "t">>

\* C5: in every feature record _df_to_features produces, the token ids, the
\* attention mask and the segment ids each have length MAX_SEQ_LENGHT (128),
\* for a pair shorter than the limit (padded) and longer (cut).
C5_FeatureLengthsAreMaxSeqLength ==
    pcData = "converted" =>
        \A k \in DOMAIN features :
            /\ Len(features[k].input_ids) = 128
            /\ Len(features[k].attention_mask) = 128
            /\ Len(features[k].token_type_ids) = 128

\* a pair that had to be cut: its record holds no padding
C5_Witness ==
    /\ pcData = "converted"
    /\ Len(df) = 1
    /\ WellFormed(df[1])
    /\ df[1].sentence1.ntok + df[1].sentence2.ntok + 3 > 128
    /\ Len(features) = 1
    /\ features[1].input_ids[128] = "[SEP]"
    /\ features[1].attention_mask[128] = 1

(***************************************************************************)
(* Claims about the layer-freezing cell                                    *)
(***************************************************************************)
\* total numel of the parameters left with requires_grad False
FrozenNumel == SumNumel({p \in Params : ~requires_grad[p]})

\* in how many entries of trainable_layers a parameter is reachable
Multiplicity(p) ==
    Cardinality({l \in {EncoderLayer(NumEncoderLayers), Pooler, Classifier} :
                    p \in layer_params[l]})

RECURSIVE Overcount(_)
Overcount(S) ==
    IF S = {} THEN 0
    ELSE LET p == CHOOSE q \in S : TRUE
         IN  (IF Multiplicity(p) > 1 THEN (Multiplicity(p) - 1) * numel[p]
              ELSE 0) + Overcount(S \ {p})

NoSharedTrainable == \A p \in Params : Multiplicity(p) <= 1

C7_TrainableIffLastEncoderPoolerClassifier ==
    pcFreeze = "done" =>
        \A p \in Params :
            requires_grad[p] <=>
                \/ p \in layer_params[<<"encoder", NumEncoderLayers>>]
                \/ p \in layer_params[<<"pooler", 0>>]
                \/ p \in layer_params[<<"classifier", 0>>]

C7_Witness ==
    /\ pcFreeze = "done"
    /\ \E p \in Params : p \in layer_params[<<"encoder", 1>>]
                         /\ ~requires_grad[p]
    /\ \E p \in Params : p \in layer_params[<<"encoder", NumEncoderLayers>>]
                         /\ requires_grad[p]

(***************************************************************************)
(* Claims about the training loop                                          *)
(***************************************************************************)
\* physical batches per epoch, and physical batches per virtual batch
BatchesPerEpoch ==
    CHOOSE n \in 0..train_size :
        /\ n * BATCH_SIZE >= train_size
        /\ (n - 1) * BATCH_SIZE < train_size

Rate == CHOOSE r \in 1..VIRTUAL_BATCH_SIZE : r * BATCH_SIZE = VIRTUAL_BATCH_SIZE

StepPositions == {i \in DOMAIN ops : ops[i] = "step"}

LogicalBatches(n, v) ==
    [k \in 1..((n + v - 1) \div v) |->
        IF k * v <= n THEN v ELSE n - (k - 1) * v]

UpdateSamples == [k \in DOMAIN updates |-> updates[k][2]]

\* C6: for a training set and a VIRTUAL_BATCH_SIZE, the weight updates of
\* an epoch and the samples accumulated into each do not depend on
\* BATCH_SIZE: for every BATCH_SIZE dividing VIRTUAL_BATCH_SIZE they are the
\* logical batches of the training set cut by VIRTUAL_BATCH_SIZE.
C6_UpdatesIndependentOfBatchSize ==
    pc # "idle" =>
        /\ Len(updates) <= Len(LogicalBatches(train_size, VIRTUAL_BATCH_SIZE))
        /\ \A k \in DOMAIN updates :
              UpdateSamples[k] = LogicalBatches(train_size, VIRTUAL_BATCH_SIZE)[k]
        /\ (pc \in {"next_batch", "done"} /\ step = BatchesPerEpoch) =>
              UpdateSamples = LogicalBatches(train_size, VIRTUAL_BATCH_SIZE)

\* an epoch run in physical batches of 2 for virtual batches of 4, with a
\* smaller last batch
C6_Witness ==
    /\ pc = "next_batch"
    /\ step = BatchesPerEpoch
    /\ BATCH_SIZE = 2
    /\ VIRTUAL_BATCH_SIZE = 4
    /\ train_size = 7
    /\ updates = <<(<<2, 4>>), (<<2, 3>>)>>

BatchCalls(x) == <<"forward", "backward", x, "zero_grad">>

\* the calls of a finished batch: the four calls, then the forward passes
\* of an evaluation, if one ran
FinishedBatch(c) ==
    /\ Len(c) >= 4
    /\ SubSeq(c, 1, 4) \in {BatchCalls("step"), BatchCalls("virtual_step")}
    /\ \A i \in 5..Len(c) : c[i] = "eval_forward"

\* C9: on every training batch the calls are, in this order, the forward
\* pass, loss.backward, exactly one of optimizer.step and
\* optimizer.virtual_step, and model.zero_grad; the forward pass of the next
\* batch starts only after that zero_grad.
C9_BatchCallOrder ==
    /\ pc = "forward" => calls = <<>> \/ FinishedBatch(calls)
    /\ pc = "backward" => calls = <<"forward">>
    /\ pc = "optimizer" => calls = <<"forward", "backward">>
    /\ pc = "zero_grad" =>
          calls \in {<<"forward", "backward", "step">>,
                     <<"forward", "backward", "virtual_step">>}
    /\ pc \in {"logging", "evaluate", "eval_loop", "report"} => FinishedBatch(calls)
    /\ pc \in {"next_batch", "done"} => calls = <<>> \/ FinishedBatch(calls)

\* a batch about to start after a batch that accumulated and was evaluated
C9_Witness ==
    /\ pc = "forward"
    /\ step = 2
    /\ Len(calls) > 4
    /\ calls[3] = "virtual_step"
    /\ calls[5] = "eval_forward"

\* C10: within an epoch the evaluation and the report run at a step if and
\* only if the step index is a positive multiple of LOGGING_INTERVAL, never
\* at step 0, and the step index starts from 0 again at every epoch.
C10_EvaluationEveryLoggingInterval ==
    pc # "idle" =>
        /\ eval_steps =
              {t \in 0..(step - 1) : \E k \in 1..t : t = k * LOGGING_INTERVAL}
        /\ 0 \notin eval_steps
        /\ pc \in {"evaluate", "eval_loop", "report"} =>
              \E k \in 1..step : step = k * LOGGING_INTERVAL
        /\ pc = "next_batch" => step = Len(ops)
        /\ step <= BatchesPerEpoch

\* the second epoch reports at steps 2 and 4 again, not at 0, 1 or 3
C10_Witness ==
    /\ pc = "next_batch"
    /\ epoch = 2
    /\ LOGGING_INTERVAL = 2
    /\ step = 5
    /\ eval_steps = {2, 4}

UpdateBatches == [k \in DOMAIN updates |-> updates[k][1]]

RECURSIVE SumSeq(_)
SumSeq(q) == IF q = <<>> THEN 0 ELSE q[1] + SumSeq(Tail(q))

C13_EvaluateSetsEvalThenTrainMode ==
    pc # "idle" =>
        /\ last_forward.kind = "eval" => ~last_forward.training
        /\ (last_forward.kind = "train" /\ last_forward.after_evaluate) =>
              last_forward.training
        /\ pc = "eval_loop" => ~training
        /\ (evaluate_entry # "not_called" /\ pc # "eval_loop") => training

\* a training forward pass in train mode after an evaluation that was
\* called with the model in eval mode
C13_Witness ==
    /\ pc = "backward"
    /\ evaluate_entry = "eval"
    /\ last_forward = [kind |-> "train", training |-> TRUE,
                       after_evaluate |-> TRUE]
    /\ Len(calls) = 1

\* test examples predicted correctly in the evaluation that has just returned
CorrectPredictions == SumSeq([k \in DOMAIN accuracy_arr |-> accuracy_arr[k][1]])

\* C14 as stated: the accuracy evaluate returns is the number of correctly
\* predicted test examples divided by the number of test examples, for
\* every test-set size, also one that is not a multiple of BATCH_SIZE.
C14_AccuracyIsCorrectOverTotal ==
    pc = "report" =>
        FracEq(eval_accuracy, Fraction(CorrectPredictions, test_size))

\* the same, for test sets that fill every batch
C14_AccuracyIsCorrectOverTotalOnFullBatches ==
    (pc = "report" /\ test_size % BATCH_SIZE = 0) =>
        FracEq(eval_accuracy, Fraction(CorrectPredictions, test_size))

=============================================================================
